---- MODULE Spec2Model ----
(***************************************************************************)
(* A model of SplunkLogger (src/splunklogger.js): the queue and its size   *)
(* tally, the interval timer, the middleware chain of a flush and the      *)
(* retry loop of a delivery.  One action per public operation or           *)
(* asynchronous callback; a handler's synchronous calls are part of its    *)
(* action.                                                                 *)
(***************************************************************************)
EXTENDS Integers, Sequences, FiniteSets, TLC

VARIABLES
    config,         \* this.config
    timerID,        \* this._timerID (Null when there is none)
    timerDuration,  \* this._timerDuration
    timers,         \* the intervals set and not cleared
    middlewares,    \* this.middlewares
    contextQueue,   \* this.contextQueue
    eventSizes,     \* this.eventSizes
    flushes,        \* the flushes begun, each with its position and history
    nextId,         \* the number of the next send call
    accepted,       \* the send calls that returned without throwing
    registered,     \* the middlewares in the order use was called
    sent,           \* the messages of the send calls so far, in order
    ticked          \* whether the step just taken was a timer tick

vars == <<config, timerID, timerDuration, timers, middlewares, contextQueue,
          eventSizes, flushes, nextId, accepted, registered, sent, ticked>>

\* ------------------------------------------------------------------ bounds

\* send calls that reach the queue
MaxSends == 2
\* flushes that get as far as their middleware chain
MaxFlushes == 2
\* registered middleware functions
MaxMiddlewares == 2
\* largest maxRetries a configuration asks for
MaxRetriesCfg == 2

\* ------------------------------------------------------- program constants

\* defaultConfig.maxRetries, .batchInterval, .maxBatchSize, .autoFlush
DefaultMaxRetries == 0
DefaultBatchInterval == 0
DefaultMaxBatchSize == 0
DefaultAutoFlush == TRUE
DefaultPort == 8088
\* defaultConfig.level, which is SplunkLogger.prototype.levels.INFO
LevelInfo == "info"

\* ------------------------------------------------------------------ inputs

\* A null/undefined value where a number or an error is expected.
Null == 0

\* Messages a caller sends: two serialisable payloads of different sizes and
\* one with a circular reference, which JSON.stringify refuses.
\* "undef" is a message property set to undefined.
Messages == {"a", "bb", "cyc", "undef"}

Serializable(m) == m # "cyc"

\* Buffer.byteLength(JSON.stringify(body), "utf8") of an event's body.
ByteLength(m) == IF m = "a" THEN 1 ELSE 2

\* The port of a settings object that has no port property, and a port that
\* parseInt turns into NaN.
NoPort == 0
PortNaN == -1

\* A settings object: the fields the batching and delivery rules read.  A
\* numeric field that is 0 is absent or zero (the code's `||` cannot tell);
\* autoFlush is absent when hasAutoFlush is FALSE.  The object has a string
\* token, no level and no port unless WithToken, WithLevel or WithPort say
\* otherwise.
Settings(af, mbs, bi, mr) ==
    [hasAutoFlush |-> af # "none", autoFlush |-> (af = "true"),
     maxBatchSize |-> mbs, batchInterval |-> bi, maxRetries |-> mr,
     token |-> "str", level |-> "none", port |-> NoPort]

\* Tokens of a settings object: none, a string, or a value that is not a
\* string (a number other than 0).
Tokens == {"none", "str", "num"}

\* Levels of a settings object: none, or one of SplunkLogger.prototype.levels.
Levels == {"none", "debug", "info", "warn", "error"}

\* The settings s with token t, with level l.
WithToken(s, t) == [s EXCEPT !.token = t]
WithLevel(s, l) == [s EXCEPT !.level = l]
WithPort(s, p) == [s EXCEPT !.port = p]

\* Settings objects given to the constructor.
CtorConfigs ==
    {Settings(af, mbs, bi, mr) :
        af \in {"none", "false"}, mbs \in {0, 2}, bi \in {0, 5},
        mr \in 0..MaxRetriesCfg}

\* context.config of a send: absent, or an override of one field.
NoCallConfig == [present |-> FALSE, c |-> Settings("none", 0, 0, 0)]

CallConfigs ==
    {NoCallConfig}
    \cup {[present |-> TRUE, c |-> s] :
            s \in {Settings("false", 0, 0, 0), Settings("true", 0, 0, 0),
                   Settings("none", 0, 7, 0), Settings("none", 0, 0, 1)}}

\* Middleware functions a host registers.
MiddlewareIds == {1, 2}

\* ----------------------------------------------------------------- helpers

\* JavaScript's a || b on numbers: a unless it is falsy (0, undefined).
Or(a, b) == IF a # 0 THEN a ELSE b

\* a || b on a token, a level or a severity: a unless it is absent.
OrElse(a, b) == IF a # "none" THEN a ELSE b

RECURSIVE SumSeq(_)
SumSeq(s) == IF s = <<>> THEN 0 ELSE s[1] + SumSeq(Tail(s))

\* Array.prototype.pop's effect on the array (nothing on an empty one).
Pop(s) == IF s = <<>> THEN s ELSE SubSeq(s, 1, Len(s) - 1)

\* The logger object as one value, so that a handler's synchronous calls
\* compose: the instance fields, plus `threw`, set when the call in progress
\* has thrown, and `sends`, the number of send calls begun.
Logger ==
    [config |-> config, hasConfig |-> TRUE, timerID |-> timerID,
     timerDuration |-> timerDuration, timers |-> timers,
     contextQueue |-> contextQueue, eventSizes |-> eventSizes,
     flushes |-> flushes, threw |-> FALSE, sends |-> nextId - 1]

\* -------------------------------------------------------------- the timer

\* setInterval's handle: a value no live interval has.
NewTimer(live) == CHOOSE t \in 1..(Cardinality(live) + 1) : t \notin live

\* A timer leak: _disableTimer forgets the handle without clearing it.
DisableTimer_NoClear(S) ==
    IF S.timerID # Null
    THEN [S EXCEPT !.timerDuration = 0, !.timerID = Null]
    ELSE S

\* SplunkLogger.prototype._disableTimer
DisableTimer(S) ==
    IF S.timerID # Null
    THEN [S EXCEPT !.timers = @ \ {S.timerID},
                   !.timerDuration = 0,
                   !.timerID = Null]
    ELSE S

\* A restart that sets the new interval without clearing the old one.
EnableTimer_NoRestart(S, interval) ==
    IF interval <= 0
    THEN [S EXCEPT !.threw = TRUE]
    ELSE LET S2 == IF S.hasConfig
                   THEN [S EXCEPT !.config.batchInterval = interval]
                   ELSE S
             id == NewTimer(S2.timers)
         IN  [S2 EXCEPT !.timerDuration = interval,
                        !.timerID = id,
                        !.timers = @ \cup {id}]

\* SplunkLogger.prototype._enableTimer, for a numeric interval
EnableTimer(S, interval) ==
    IF interval <= 0
    THEN [S EXCEPT !.threw = TRUE]
    ELSE LET S1 == IF S.timerID # Null THEN DisableTimer(S) ELSE S
             S2 == IF S1.hasConfig
                   THEN [S1 EXCEPT !.config.batchInterval = interval]
                   ELSE S1
             id == NewTimer(S2.timers)
         IN  [S2 EXCEPT !.timerDuration = interval,
                        !.timerID = id,
                        !.timers = @ \cup {id}]

\* ----------------------------------------------------- settings resolution

\* The settings _initializeConfig returns for argument c: the argument's
\* value, then the instance's, then the default.
ResolvedConfig(S, c) ==
    LET inst == S.config
    IN  [token |-> OrElse(c.token, inst.token),
         level |-> OrElse(c.level, OrElse(inst.level, LevelInfo)),
         hasAutoFlush |-> TRUE,
         autoFlush |->
            IF c.hasAutoFlush THEN c.autoFlush
            ELSE IF S.hasConfig /\ inst.hasAutoFlush THEN inst.autoFlush
            ELSE DefaultAutoFlush,
         maxRetries |->
            Or(c.maxRetries, Or(inst.maxRetries, DefaultMaxRetries)),
         maxBatchSize |->
            Or(c.maxBatchSize, Or(inst.maxBatchSize, DefaultMaxBatchSize)),
         batchInterval |->
            Or(c.batchInterval, Or(inst.batchInterval, DefaultBatchInterval)),
         port |->
            IF c.port = NoPort THEN Or(inst.port, DefaultPort) ELSE c.port]

\* An upsert that starts and restarts the timer but never stops it.
UpsertTimer_NoDisable(S, ret) ==
    LET startTimer == S.timerID = Null /\ ret.autoFlush /\ ret.batchInterval > 0
        changeTimer == /\ S.timerID # Null
                       /\ ret.autoFlush
                       /\ S.timerDuration # ret.batchInterval
                       /\ ret.batchInterval > 0
    IN  IF startTimer \/ changeTimer
        THEN EnableTimer(S, ret.batchInterval)
        ELSE S

\* The timer upsert of _initializeConfig.
UpsertTimer(S, ret) ==
    LET startTimer == S.timerID = Null /\ ret.autoFlush /\ ret.batchInterval > 0
        changeTimer == /\ S.timerID # Null
                       /\ ret.autoFlush
                       /\ S.timerDuration # ret.batchInterval
                       /\ ret.batchInterval > 0
    IN  IF startTimer \/ changeTimer
        THEN EnableTimer(S, ret.batchInterval)
        ELSE IF S.timerID # Null /\ (S.timerDuration < 0 \/ ~ret.autoFlush)
        THEN DisableTimer(S)
        ELSE S

\* The token tests of _initializeConfig: neither the instance nor the
\* argument has a token, or neither has a token that is a string.
TokenRejected(S, c) ==
    \/ S.config.token = "none" /\ c.token = "none"
    \/ S.config.token # "str" /\ c.token # "str"

\* The number tests of _initializeConfig: maxRetries, maxBatchSize or
\* batchInterval resolves to a negative number.
NumberRejected(ret) ==
    ret.maxRetries < 0 \/ ret.maxBatchSize < 0 \/ ret.batchInterval < 0

\* The port tests of _initializeConfig: the port is not a number, or is
\* outside 1000..65535.
PortRejected(ret) ==
    ret.port = PortNaN \/ ret.port < 1000 \/ ret.port > 65535

\* SplunkLogger.prototype._initializeConfig: the logger afterwards and the
\* settings returned; it throws on a rejected token before anything else,
\* on a rejected number before the timer upsert, on a rejected port after it.
InitializeConfig(S, c) ==
    LET ret == ResolvedConfig(S, c)
    IN  IF TokenRejected(S, c) \/ NumberRejected(ret)
        THEN [S |-> [S EXCEPT !.threw = TRUE], ret |-> ret]
        ELSE LET S1 == UpsertTimer(S, ret)
             IN  [S |-> IF PortRejected(ret)
                        THEN [S1 EXCEPT !.threw = TRUE]
                        ELSE S1,
                  ret |-> ret]

\* The constructor: no timer, settings resolved against no instance settings,
\* empty middleware list and queue.
Construct(c) ==
    LET S0 == [config |-> WithToken(Settings("none", 0, 0, 0), "none"),
               hasConfig |-> FALSE,
               timerID |-> Null, timerDuration |-> 0, timers |-> {},
               contextQueue |-> <<>>, eventSizes |-> <<>>,
               flushes |-> <<>>, threw |-> FALSE, sends |-> 0]
        r == InitializeConfig(S0, c)
    IN  IF r.S.threw THEN r.S
        ELSE [r.S EXCEPT !.config = r.ret, !.hasConfig = TRUE]

\* ------------------------------------------------------------- the errors

NoError == [kind |-> "none", at |-> 0]

\* The error object the transport hands to the callback of the k-th POST.
TransportError(k) == [kind |-> "transport", at |-> k]

\* new Error(body.text) with code = body.code, built after the k-th POST.
ServiceError(k) == [kind |-> "service", at |-> k]

\* The error the middleware at position k of the chain passes to next.
MiddlewareError(k) == [kind |-> "middleware", at |-> k]

\* What a POST can call back with: a transport error, a body with a
\* non-zero code, a body with code 0, or neither error nor body.
Replies == {"transport", "service", "ok", "empty"}

\* ------------------------------------------------------ the delivery engine

\* The loop condition of _sendEvents, before its increment of numRetries.
RetryCondition(numRetries, maxRetries) == numRetries <= maxRetries

\* A retry test that is off by one.
ShouldRetry_Strict(requestError, numRetries, maxRetries) ==
    requestError # NoError /\ numRetries < maxRetries

\* The POST callback's "retry if numRetries hasn't exceeded the limit".
ShouldRetry(requestError, numRetries, maxRetries) ==
    requestError # NoError /\ numRetries <= maxRetries

\* A classification that takes every body for a success.
SplunkErrorOf_Never(requestError, reply, k) == NoError

\* The POST callback's classification of a reply: the error from Splunk.
SplunkErrorOf(requestError, reply, k) ==
    IF requestError = NoError /\ reply = "service"
    THEN ServiceError(k)
    ELSE NoError

\* A callback that is handed whichever error there is.
CallbackError_Either(requestError, splunkError) ==
    IF requestError # NoError THEN requestError ELSE splunkError

\* The error argument of the completion callback.
CallbackError(requestError, splunkError) == requestError

\* The errors handed to the error sink when the loop has ended.
SinkErrors(requestError, splunkError) ==
    IF requestError # NoError \/ splunkError # NoError
    THEN <<IF requestError # NoError THEN requestError ELSE splunkError>>
    ELSE <<>>

\* An end of the loop that invokes the callback twice.
Finish_Twice(f) ==
    [f EXCEPT !.pc = "done",
              !.sink = @ \o SinkErrors(f.requestError, f.splunkError),
              !.cbs = @ \o <<CallbackError(f.requestError, f.splunkError),
                             CallbackError(f.requestError, f.splunkError)>>]

\* The final function of _sendEvents: the error sink, then the callback.
Finish(f) ==
    [f EXCEPT !.pc = "done",
              !.sink = @ \o SinkErrors(f.requestError, f.splunkError),
              !.cbs = Append(@, CallbackError(f.requestError, f.splunkError))]

\* utils.whilst(condition, body, callback): test the condition (which counts
\* the attempt); run the body, which issues one POST, or end the loop.
Whilst(f) ==
    LET go == RetryCondition(f.numRetries, f.cfg.maxRetries)
        f1 == [f EXCEPT !.numRetries = @ + 1]
    IN  IF go
        THEN [f1 EXCEPT !.pc = "post",
                        !.posts = @ + 1,
                        !.trace = Append(@, <<"post", f.posts + 1>>)]
        ELSE Finish(f1)

\* The callback of _post: store the latest error, classify, then back off
\* and retry or stop iterating.
PostCallback(f, reply) ==
    LET err == IF reply = "transport" THEN TransportError(f.posts) ELSE NoError
        f1 == [f EXCEPT !.requestError = err,
                        !.splunkError = SplunkErrorOf(err, reply, f.posts),
                        !.replies = Append(@, reply)]
    IN  IF ShouldRetry(err, f1.numRetries, f1.cfg.maxRetries)
        THEN [f1 EXCEPT !.pc = "backoff",
                        !.backoffs = Append(@, f1.numRetries),
                        !.trace = Append(@, <<"backoff", f1.numRetries>>)]
        ELSE Finish(f1)

\* A backoff whose timeout never continues the loop.
BackoffDone_Stuck(f) == f

\* utils.expBackoff's timeout fires: done() continues the loop.
BackoffDone(f) == Whilst(f)

\* SplunkLogger.prototype._sendEvents
SendEvents(f) ==
    Whilst([f EXCEPT !.numRetries = 0,
                     !.requestError = NoError,
                     !.splunkError = NoError])

\* ------------------------------------------------------- bodies and sizes

\* SplunkLogger.prototype._makeBody: the event/1.0 object of a context.
MakeBody(ctx) ==
    [event |-> [id |-> ctx.id, message |-> ctx.message,
                severity |-> OrElse(ctx.severity, LevelInfo)]]

\* JSON.stringify of one body: one JSON text.
Stringify(body) == [json |-> body]

\* The data string of a batched flush: the JSON texts of the queue's bodies,
\* one after the other.
RECURSIVE BatchData(_)
BatchData(queue) ==
    IF queue = <<>> THEN <<>>
    ELSE <<Stringify(MakeBody(queue[1]))>> \o BatchData(Tail(queue))

\* SplunkLogger.prototype.calculateBatchSize
CalculateBatchSize(S) == SumSeq(S.eventSizes)

\* ---------------------------------------------------------------- the flush

\* A registration that puts the newest middleware first.
Use_Prepend(list, middleware) == <<middleware>> \o list

\* The middleware list after use(middleware).
Use(list, middleware) == Append(list, middleware)

\* flush's isBatched: manual, interval or size batching.
IsBatched(S) ==
    LET batchOverSize == /\ S.config.maxBatchSize > 0
                         /\ CalculateBatchSize(S) > S.config.maxBatchSize
    IN  \/ ~S.config.autoFlush
        \/ (S.config.autoFlush /\ (batchOverSize \/ S.timerID # Null))

\* The queue and the size tally after flush has taken its events.
TakeEvents(S, batched) ==
    IF batched
    THEN [S EXCEPT !.contextQueue = <<>>, !.eventSizes = <<>>]
    ELSE [S EXCEPT !.contextQueue = Pop(@), !.eventSizes = Pop(@)]

\* A chain callback that sends the events whatever the chain reported.
ChainDone_IgnoreError(S, i, err) ==
    LET f == S.flushes[i]
        r == InitializeConfig(S, f.cfg)
        f1 == [f EXCEPT
                 !.cfg = r.ret,
                 !.body = IF f.batched
                          THEN [type |-> "form", data |-> f.message]
                          ELSE [type |-> "json",
                                data |-> <<Stringify(MakeBody(f.context))>>]]
    IN  [r.S EXCEPT !.flushes[i] = SendEvents(f1)]

\* The callback flush gives to utils.chain, for the flush at index i: the
\* error sink on an error; otherwise validate the context again, set the body
\* and send the events.
ChainDone(S, i, err) ==
    LET f == S.flushes[i]
    IN  IF err # NoError
        THEN [S EXCEPT !.flushes[i].pc = "aborted",
                       !.flushes[i].sink = Append(@, err)]
        ELSE LET r == InitializeConfig(S, f.cfg)
                 f1 == [f EXCEPT
                          !.cfg = r.ret,
                          !.body = IF f.batched
                                   THEN [type |-> "form", data |-> f.message]
                                   ELSE [type |-> "json",
                                         data |-> <<Stringify(MakeBody(f.context))>>]]
             IN  [r.S EXCEPT !.flushes[i] = SendEvents(f1)]

\* utils.chain started on the seed and the copied middlewares: with no
\* middleware the callback runs at once, otherwise the first one starts.
StartChain(S, i) ==
    LET f == S.flushes[i]
    IN  IF f.mws = <<>>
        THEN ChainDone(S, i, NoError)
        ELSE [S EXCEPT !.flushes[i].pc = "mw",
                       !.flushes[i].step = 1,
                       !.flushes[i].trace = Append(@, <<"start", f.mws[1]>>)]

\* The middleware at the current step calls next(err, context): the chain
\* stops on an error, starts the next middleware, or ends.
ChainNext(S, i, err) ==
    LET f == S.flushes[i]
        S1 == [S EXCEPT !.flushes[i].trace =
                  Append(@, <<IF err # NoError THEN "fail" ELSE "next",
                              f.mws[f.step]>>)]
    IN  IF err # NoError THEN ChainDone(S1, i, err)
        ELSE IF f.step < Len(f.mws)
        THEN [S1 EXCEPT !.flushes[i].step = f.step + 1,
                        !.flushes[i].trace =
                            Append(@, <<"start", f.mws[f.step + 1]>>)]
        ELSE ChainDone(S1, i, NoError)

\* SplunkLogger.prototype.flush, called by src ("flush", "send" or "timer")
\* with callback cb.
Flush(S, mws, src, cb) ==
    LET batched == IsBatched(S)
        queue == S.contextQueue
        S1 == TakeEvents(S, batched)
    IN  IF batched /\ \E k \in 1..Len(queue) : ~Serializable(queue[k].message)
        THEN [S1 EXCEPT !.threw = TRUE]
        ELSE IF ~batched /\ queue = <<>>
        THEN [S1 EXCEPT !.threw = TRUE]
        ELSE LET context == IF batched
                            THEN [id |-> 0, message |-> "batch",
                                  severity |-> "none", config |-> S1.config]
                            ELSE queue[Len(queue)]
                 r == InitializeConfig(S1, context.config)
                 f == [src |-> src, cb |-> cb, batched |-> batched,
                       events |-> IF batched THEN queue ELSE <<context>>,
                       message |-> IF batched THEN BatchData(queue) ELSE <<>>,
                       context |-> [context EXCEPT
                                      !.config = r.ret,
                                      !.severity = OrElse(@, LevelInfo)],
                       cfg |-> r.ret, mws |-> mws,
                       body |-> [type |-> "none", data |-> <<>>],
                       pc |-> "init", step |-> 0, numRetries |-> 0, posts |-> 0,
                       backoffs |-> <<>>, requestError |-> NoError,
                       splunkError |-> NoError, sink |-> <<>>, cbs |-> <<>>,
                       replies |-> <<>>, trace |-> <<>>, born |-> S.sends]
                 S2 == [r.S EXCEPT !.flushes = Append(@, f)]
             IN  IF r.S.threw THEN r.S
                 ELSE StartChain(S2, Len(S2.flushes))

\* ----------------------------------------------------------------- the send

\* send's "only flush if using manual batching, no timer, and if batch is
\* too large".
ShouldFlush(S, ctxConfig) ==
    /\ ctxConfig.autoFlush
    /\ S.timerID = Null
    /\ CalculateBatchSize(S) > ctxConfig.maxBatchSize

\* SplunkLogger.prototype.send of the event `id` with message m and no
\* severity, per-call settings cc and callback cb.
Send(S, mws, id, m, cc, cb) ==
    LET r == InitializeConfig(S, IF cc.present THEN cc.c ELSE S.config)
        context == [id |-> id, message |-> m,
                    severity |-> OrElse("none", LevelInfo), config |-> r.ret]
        S1 == [r.S EXCEPT !.contextQueue = Append(@, context)]
        S2 == [S1 EXCEPT !.eventSizes = Append(@, ByteLength(m))]
    IN  IF r.S.threw THEN r.S
        ELSE IF m = "undef" THEN [r.S EXCEPT !.threw = TRUE]
        ELSE IF ~Serializable(m) THEN [S1 EXCEPT !.threw = TRUE]
        ELSE IF ShouldFlush(S2, context.config)
        THEN Flush(S2, mws, "send", cb)
        ELSE S2

\* ------------------------------------------------------------- the actions

\* The logger's fields after a handler has run.
Commit(S) ==
    /\ config' = S.config
    /\ timerID' = S.timerID
    /\ timerDuration' = S.timerDuration
    /\ timers' = S.timers
    /\ contextQueue' = S.contextQueue
    /\ eventSizes' = S.eventSizes
    /\ flushes' = S.flushes

\* The callback a caller hands over: its own (for send, with the number of
\* the send call) or none, which the code replaces by an empty function.
Callback(user, owner) == [user |-> user, owner |-> owner]

\* new SplunkLogger(c) for a c of ctorConfigs
InitWith(ctorConfigs) ==
    \E c \in ctorConfigs :
        LET S == Construct(c)
        IN  /\ ~S.threw
            /\ config = S.config
            /\ timerID = S.timerID
            /\ timerDuration = S.timerDuration
            /\ timers = S.timers
            /\ contextQueue = S.contextQueue
            /\ eventSizes = S.eventSizes
            /\ flushes = S.flushes
            /\ middlewares = <<>>
            /\ nextId = 1
            /\ accepted = {}
            /\ registered = <<>>
            /\ sent = <<>>
            /\ ticked = FALSE

\* logger.send(context, callback), the message drawn from msgs, the per-call
\* settings from callConfigs, with a callback of the caller's or without
SendCall(msgs, callConfigs, users) ==
    /\ nextId <= MaxSends
    /\ \E m \in msgs, cc \in callConfigs, user \in users :
         LET S == Send([Logger EXCEPT !.sends = nextId],
                       middlewares, nextId, m, cc, Callback(user, nextId))
         IN  /\ Len(S.flushes) <= MaxFlushes
             /\ Commit(S)
             /\ accepted' = IF S.threw THEN accepted ELSE accepted \cup {nextId}
             /\ sent' = Append(sent, m)
    /\ nextId' = nextId + 1
    /\ ticked' = FALSE
    /\ UNCHANGED <<middlewares, registered>>

\* logger.flush(callback)
FlushCall ==
    /\ LET S == Flush(Logger, middlewares, "flush", Callback(TRUE, 0))
       IN  /\ Len(S.flushes) <= MaxFlushes
           /\ Commit(S)
    /\ ticked' = FALSE
    /\ UNCHANGED <<middlewares, nextId, accepted, registered, sent>>

\* A tick that flushes whether or not anything is queued.
Tick_Always(S, mws) == Flush(S, mws, "timer", Callback(FALSE, 0))

\* What the function given to setInterval does.
Tick(S, mws) ==
    IF Len(S.contextQueue) > 0
    THEN Flush(S, mws, "timer", Callback(FALSE, 0))
    ELSE S

\* The function given to setInterval runs, for an interval not cleared.
TimerTick ==
    /\ \E t \in timers :
         LET S == Tick(Logger, middlewares)
         IN  /\ Len(S.flushes) <= MaxFlushes
             /\ Commit(S)
    /\ ticked' = TRUE
    /\ UNCHANGED <<middlewares, nextId, accepted, registered, sent>>

\* logger.use(middleware)
UseCall ==
    /\ Len(middlewares) < MaxMiddlewares
    /\ \E mw \in MiddlewareIds :
         /\ middlewares' = Use(middlewares, mw)
         /\ registered' = Append(registered, mw)
    /\ ticked' = FALSE
    /\ UNCHANGED <<config, timerID, timerDuration, timers, contextQueue,
                   eventSizes, flushes, nextId, accepted, sent>>

\* The running middleware of flush i calls next, with an error or without.
MiddlewareNext ==
    \E i \in 1..Len(flushes), fails \in BOOLEAN :
        /\ flushes[i].pc = "mw"
        /\ Commit(ChainNext(Logger, i,
                            IF fails THEN MiddlewareError(flushes[i].step)
                            ELSE NoError))
        /\ ticked' = FALSE
        /\ UNCHANGED <<middlewares, nextId, accepted, registered, sent>>

\* The transport calls back for the POST of flush i, with one of replies.
PostReply(replies) ==
    \E i \in 1..Len(flushes), reply \in replies :
        /\ flushes[i].pc = "post"
        /\ flushes' = [flushes EXCEPT ![i] = PostCallback(@, reply)]
        /\ ticked' = FALSE
        /\ UNCHANGED <<config, timerID, timerDuration, timers, middlewares,
                       contextQueue, eventSizes, nextId, accepted, registered,
                       sent>>

\* The backoff delay of flush i has elapsed.
BackoffElapsed ==
    \E i \in 1..Len(flushes) :
        /\ flushes[i].pc = "backoff"
        /\ flushes' = [flushes EXCEPT ![i] = BackoffDone(@)]
        /\ ticked' = FALSE
        /\ UNCHANGED <<config, timerID, timerDuration, timers, middlewares,
                       contextQueue, eventSizes, nextId, accepted, registered,
                       sent>>

\* ------------------------------------------------------ the specifications

\* Loggers that flush per event, by size, by timer and by hand.
QueueConfigs ==
    {Settings("none", 0, 0, 0), Settings("none", 2, 0, 1),
     Settings("none", 0, 5, 0), Settings("false", 0, 0, 1),
     Settings("none", 2, 5, 0), Settings("false", 0, 5, 0)}

\* The queue under every flush trigger, the callers sending any payload.
Init == InitWith(QueueConfigs)

Next ==
    \/ SendCall({"a", "bb", "cyc"}, {NoCallConfig}, {TRUE})
    \/ FlushCall
    \/ TimerTick
    \/ UseCall
    \/ MiddlewareNext
    \/ PostReply(Replies)
    \/ BackoffElapsed

Spec == Init /\ [][Next]_vars

\* The same, the callers sending only payloads that JSON.stringify accepts.
NextSerializable ==
    \/ SendCall({"a", "bb"}, {NoCallConfig}, {TRUE})
    \/ FlushCall
    \/ TimerTick
    \/ UseCall
    \/ MiddlewareNext
    \/ PostReply(Replies)
    \/ BackoffElapsed

SpecSerializable == Init /\ [][NextSerializable]_vars

\* The delivery engine: every retry budget up to MaxRetriesCfg, for
\* single-event and for batched flushes.
DeliveryConfigs ==
    {Settings("none", 0, 0, mr) : mr \in 0..MaxRetriesCfg}
    \cup {Settings("false", 0, 0, MaxRetriesCfg)}

InitDelivery == InitWith(DeliveryConfigs)

NextDelivery ==
    \/ SendCall({"a"}, {NoCallConfig}, {TRUE})
    \/ FlushCall
    \/ PostReply(Replies)
    \/ BackoffElapsed

SpecDelivery == InitDelivery /\ [][NextDelivery]_vars

\* The middleware chain: any registration order, every step free to fail,
\* for single-event and for batched flushes; every POST succeeds at once.
ChainConfigs == {Settings("none", 0, 0, 0), Settings("false", 0, 0, 0)}

InitChain == InitWith(ChainConfigs)

NextChain ==
    \/ SendCall({"a"}, {NoCallConfig}, {TRUE})
    \/ FlushCall
    \/ UseCall
    \/ MiddlewareNext
    \/ PostReply({"ok"})

SpecChain == InitChain /\ [][NextChain]_vars

\* The timer: loggers built with and without an interval, sends that override
\* autoFlush, batchInterval or maxRetries for the call, any payload; every
\* POST succeeds at once.
TimerConfigs ==
    {Settings("none", 0, 5, 0), Settings("none", 0, 0, 0),
     Settings("false", 0, 5, 0)}

InitTimer == InitWith(TimerConfigs)

NextTimer ==
    \/ SendCall({"a", "cyc"}, CallConfigs, {TRUE})
    \/ FlushCall
    \/ TimerTick
    \/ PostReply({"ok"})

SpecTimer == InitTimer /\ [][NextTimer]_vars

\* Settings resolution: loggers built from every constructor settings object
\* and every level, sends whose own settings override a field, leave the
\* token out or give one that is not a string; every POST succeeds at once.
ConfigCtorConfigs ==
    CtorConfigs
    \cup {WithLevel(Settings("none", 0, 0, 0), l) : l \in Levels \ {"none"}}

ConfigCallConfigs ==
    CallConfigs
    \cup {[present |-> TRUE, c |-> WithToken(Settings("none", 0, 0, 0), t)] :
            t \in Tokens \ {"str"}}

InitConfig == InitWith(ConfigCtorConfigs)

NextConfig ==
    \/ SendCall({"a"}, ConfigCallConfigs, {TRUE})
    \/ FlushCall
    \/ TimerTick
    \/ PostReply({"ok"})

SpecConfig == InitConfig /\ [][NextConfig]_vars

\* Flushing by size: loggers with a byte threshold of 1 and of 2 and no
\* timer, the callers sending any payload; every POST succeeds at once.
SizeConfigs == {Settings("none", 1, 0, 0), Settings("none", 2, 0, 0)}

InitSize == InitWith(SizeConfigs)

NextSize ==
    \/ SendCall({"a", "bb", "cyc"}, {NoCallConfig}, {TRUE})
    \/ FlushCall
    \/ UseCall
    \/ MiddlewareNext
    \/ PostReply({"ok"})

SpecSize == InitSize /\ [][NextSize]_vars

\* Flushes under fair scheduling: the transport calls back for every POST,
\* every backoff timeout fires and every middleware calls next, each time
\* with any outcome. Middlewares are registered before the first send; every
\* send flushes its own event, with one retry allowed, and a second flush may
\* start while the first is still in flight.
LiveConfigs == {Settings("none", 0, 0, 1)}

InitLive == InitWith(LiveConfigs)

LiveUse == nextId = 1 /\ UseCall

LiveSend == Len(flushes) < 2 /\ SendCall({"a"}, {NoCallConfig}, {TRUE})

NextLive ==
    \/ LiveSend
    \/ LiveUse
    \/ MiddlewareNext
    \/ PostReply(Replies)
    \/ BackoffElapsed

SpecLive ==
    /\ InitLive
    /\ [][NextLive]_vars
    /\ WF_vars(MiddlewareNext)
    /\ WF_vars(PostReply(Replies))
    /\ WF_vars(BackoffElapsed)

\* Loggers constructed with autoFlush = false, with and without a batch
\* interval and a size threshold, used without per-call settings.
ManualConfigs ==
    {Settings("false", mbs, bi, 0) : mbs \in {0, 1}, bi \in {0, 5}}

InitManual == InitWith(ManualConfigs)

SpecManual == InitManual /\ [][NextSize]_vars

\* Settings that resolution rejects, before the timer upsert (a negative
\* interval) and after it (a port that is not a number or is out of range),
\* among settings that it accepts: given to the constructor and to send.
Ports == {NoPort, PortNaN, 80, 9000, 70000}

PortCtorConfigs ==
    {WithPort(Settings("none", 0, bi, 0), p) : bi \in {0, 5}, p \in Ports}

PortCallConfigs ==
    {NoCallConfig}
    \cup {[present |-> TRUE, c |-> WithPort(Settings(af, 0, bi, 0), p)] :
            af \in {"none", "false"}, bi \in {0, 7, -1}, p \in Ports}

\* The constructor has returned: this.config is set.
Constructed == config.token # "none"

\* new SplunkLogger(config), whether it returns or throws.
InitAttempt(ctorConfigs) ==
    \E c \in ctorConfigs :
        LET S == Construct(c)
        IN  /\ config = S.config
            /\ timerID = S.timerID
            /\ timerDuration = S.timerDuration
            /\ timers = S.timers
            /\ contextQueue = S.contextQueue
            /\ eventSizes = S.eventSizes
            /\ flushes = S.flushes
            /\ middlewares = <<>>
            /\ nextId = 1
            /\ accepted = {}
            /\ registered = <<>>
            /\ sent = <<>>
            /\ ticked = FALSE

InitPort == InitAttempt(PortCtorConfigs)

\* Calls need the object the constructor returns.
PortSend == Constructed /\ SendCall({"a"}, PortCallConfigs, {TRUE})

PortTick == Constructed /\ TimerTick

NextPort ==
    \/ PortSend
    \/ PortTick
    \/ PostReply({"ok"})

SpecPort == InitPort /\ [][NextPort]_vars

\* Sends with a callback under every flush trigger: per event, by size, by
\* timer and by hand, the transport answering with or without an error.
CallbackConfigs ==
    {Settings("none", 0, 0, 0), Settings("none", 1, 0, 0),
     Settings("none", 0, 5, 0), Settings("false", 0, 0, 0)}

InitCallback == InitWith(CallbackConfigs)

NextCallback ==
    \/ SendCall({"a", "cyc"}, {NoCallConfig}, {TRUE})
    \/ FlushCall
    \/ TimerTick
    \/ PostReply({"ok", "transport"})

SpecCallback == InitCallback /\ [][NextCallback]_vars

\* ----------------------------------------------------- the queue: C4 - C8

Flushes == {flushes[i] : i \in 1..Len(flushes)}

\* A flush that has begun and whose chain or delivery has not ended.
InFlight(f) == f.pc \in {"mw", "post", "backoff"}

\* The send calls whose contexts a sequence of contexts holds, in order.
IdsOf(contexts) == [k \in 1..Len(contexts) |-> contexts[k].id]

\* The send calls whose events the request body of flush f carries, in order.
BodyIds(f) == [k \in 1..Len(f.body.data) |-> f.body.data[k].json.event.id]

Occurs(id, ids) == \E k \in 1..Len(ids) : ids[k] = id

\* The number of places, queue and flushes, that hold the event of send id.
Holders(id) ==
    Cardinality({k \in 1..Len(contextQueue) : contextQueue[k].id = id})
    + Cardinality({<<i, k>> \in (1..Len(flushes)) \X (1..MaxSends + 1) :
                     k <= Len(flushes[i].events)
                     /\ flushes[i].events[k].id = id})

\* The request body of a flush that has posted carries the events it took.
BodyIsTaken(f) == f.posts > 0 => BodyIds(f) = IdsOf(f.events)

\* C4: while a flush is in flight, the event of a send that came after the
\* flush began is not among the events or in the request body of that flush,
\* and it is in the queue or among the events of a later flush.
C4_SendDuringFlush ==
    \A i \in 1..Len(flushes) :
        InFlight(flushes[i]) =>
            \A id \in accepted :
                id > flushes[i].born =>
                    /\ ~Occurs(id, IdsOf(flushes[i].events))
                    /\ ~Occurs(id, BodyIds(flushes[i]))
                    /\ \/ Occurs(id, IdsOf(contextQueue))
                       \/ \E j \in (i + 1)..Len(flushes) :
                            Occurs(id, IdsOf(flushes[j].events))

\* An event sent while a flush was posting, and still queued behind it.
C4_Witness ==
    \E i \in 1..Len(flushes) :
        /\ flushes[i].pc = "backoff"
        /\ \E id \in accepted :
             id > flushes[i].born /\ Occurs(id, IdsOf(contextQueue))

\* C5: the event of every send that returned is in exactly one place, the
\* queue or the events of one flush, and the request body of a flush carries
\* exactly the events that flush took.
C5_NoDoubleSendNoDrop ==
    /\ \A id \in accepted : Holders(id) = 1
    /\ \A f \in Flushes : BodyIsTaken(f)

\* Two flushes that both posted, with events of different sends.
C5_Witness ==
    \E i, j \in 1..Len(flushes) :
        /\ i < j
        /\ flushes[i].posts > 0 /\ flushes[j].posts > 0
        /\ flushes[i].events # <<>> /\ flushes[j].events # <<>>

\* The queue and the size tally agree: same length, each size the one of its
\* context, the batch size the sum of the queued contexts' sizes.
TallyAgrees ==
    /\ Len(contextQueue) = Len(eventSizes)
    /\ \A k \in 1..Len(contextQueue) :
         k <= Len(eventSizes)
         /\ eventSizes[k] = ByteLength(contextQueue[k].message)
    /\ CalculateBatchSize(Logger) =
         SumSeq([k \in 1..Len(contextQueue) |->
                    ByteLength(contextQueue[k].message)])

\* A step in which a batched flush begins leaves queue and tally empty.
DrainEmpties ==
    Len(flushes') > Len(flushes) /\ flushes'[Len(flushes')].batched
        => contextQueue' = <<>> /\ eventSizes' = <<>>

\* C6: in every state the queue and the size tally agree, and both are empty
\* after a batched drain.
C6_QueueTally == []TallyAgrees /\ [][DrainEmpties]_vars

\* Two contexts queued.
C6_Witness == Len(contextQueue) = 2 /\ Len(eventSizes) = 2

\* A message send accepts: defined, and one JSON.stringify can serialise.
Valid(m) == m # "undef" /\ Serializable(m)

DefaultSettings ==
    /\ config.autoFlush
    /\ config.maxBatchSize = DefaultMaxBatchSize
    /\ config.batchInterval = DefaultBatchInterval
    /\ timerID = Null

\* C7: with default settings a send of a valid event begins exactly one
\* flush, for that send, not batched, of exactly that event (posted at once
\* when there is no middleware), and leaves queue and tally empty.
C7_DefaultSendFlushes ==
    [][DefaultSettings /\ nextId' = nextId + 1 /\ Valid(sent'[nextId]) =>
         /\ Len(flushes') = Len(flushes) + 1
         /\ LET f == flushes'[Len(flushes')]
            IN  /\ f.src = "send" /\ f.cb.owner = nextId
                /\ ~f.batched
                /\ IdsOf(f.events) = <<nextId>>
                /\ f.mws = <<>> =>
                     /\ f.posts = 1
                     /\ f.body.type = "json"
                     /\ BodyIds(f) = <<nextId>>
                     /\ f.body.data[1].json.event.message = sent'[nextId]
         /\ contextQueue' = <<>>
         /\ eventSizes' = <<>>]_vars

\* A second send under default settings has begun the second flush.
C7_Witness ==
    /\ DefaultSettings
    /\ Len(flushes) = 2 /\ nextId = 3
    /\ flushes[2].src = "send"

TimerSettings ==
    /\ config.autoFlush
    /\ config.batchInterval > 0
    /\ timerID # Null

\* C8: with autoFlush and a running timer no send begins a flush, and a tick
\* that finds the queue non-empty begins exactly one flush, batched, whose
\* data is the JSON texts of all queued events in queue order (the request
\* body, posted at once when there is no middleware), and empties the queue.
C8_TimerBatching ==
    [][TimerSettings =>
         /\ nextId' = nextId + 1 => flushes' = flushes
         /\ ticked' /\ contextQueue # <<>> =>
              /\ Len(flushes') = Len(flushes) + 1
              /\ LET f == flushes'[Len(flushes')]
                 IN  /\ f.src = "timer"
                     /\ f.batched
                     /\ IdsOf(f.events) = IdsOf(contextQueue)
                     /\ f.message = BatchData(contextQueue)
                     /\ f.mws = <<>> =>
                          /\ f.posts = 1
                          /\ f.body = [type |-> "form", data |-> f.message]
              /\ contextQueue' = <<>>
              /\ eventSizes' = <<>>]_vars

\* A tick has flushed two queued events in one request.
C8_Witness ==
    \E f \in Flushes :
        f.src = "timer" /\ Len(f.events) = 2 /\ f.posts = 1

\* ------------------------------------------------------ delivery: C1 - C3

\* The POSTs and backoff delays of a flush, in the order they were issued.
DeliveryTrace(f) ==
    SelectSeq(f.trace, LAMBDA e : e[1] \in {"post", "backoff"})

\* POST 1, backoff(1), POST 2, backoff(2), ..., POST n.
RECURSIVE Alternation(_)
Alternation(n) ==
    IF n = 0 THEN <<>>
    ELSE IF n = 1 THEN <<<<"post", 1>>>>
    ELSE Alternation(n - 1) \o <<<<"backoff", n - 1>>, <<"post", n>>>>

AllTransport(f) == \A k \in 1..Len(f.replies) : f.replies[k] = "transport"

\* C1: a flush whose POSTs all fail with a transport error makes exactly
\* maxRetries + 1 POSTs, the k+1-st only after the k-th has failed and the
\* backoff delay for attempt k has been taken, and its callback is then
\* invoked, once, with the transport error of the last POST.
C1_RetryBound ==
    \A f \in Flushes :
        AllTransport(f) /\ f.posts > 0 =>
            /\ f.posts <= f.cfg.maxRetries + 1
            /\ Len(f.replies) \in {f.posts - 1, f.posts}
            /\ DeliveryTrace(f) \in
                 {Alternation(f.posts),
                  Alternation(f.posts) \o <<<<"backoff", f.posts>>>>}
            /\ f.pc = "backoff" <=> Len(DeliveryTrace(f)) = 2 * f.posts
            /\ f.pc = "done" =>
                 /\ f.posts = f.cfg.maxRetries + 1
                 /\ Len(f.replies) = f.posts
                 /\ f.cbs = <<TransportError(f.posts)>>
            /\ f.pc # "done" => f.cbs = <<>>
            /\ Len(f.replies) = f.posts /\ f.posts = f.cfg.maxRetries + 1
                 => f.pc = "done"

\* A flush with maxRetries = 2 that has failed three times and is done.
C1_Witness ==
    \E f \in Flushes :
        /\ f.cfg.maxRetries = 2
        /\ f.replies = <<"transport", "transport", "transport">>
        /\ f.pc = "done"

\* C2: a first POST answered without transport error and with a body whose
\* code is not zero ends the flush: one POST, the callback invoked with a
\* null error, the error sink invoked once, with the service error.
C2_ServiceErrorNotRetried ==
    \A f \in Flushes :
        Len(f.replies) >= 1 /\ f.replies[1] = "service" =>
            /\ f.pc = "done"
            /\ f.posts = 1
            /\ f.replies = <<"service">>
            /\ f.cbs = <<NoError>>
            /\ f.sink = <<ServiceError(1)>>

\* A flush with a retry budget whose first POST got a service error.
C2_Witness ==
    \E f \in Flushes : f.cfg.maxRetries = 2 /\ f.replies = <<"service">>

\* C3: when the loop has ended the callback has been invoked once, with an
\* error exactly if the last POST ended in a transport error (that error),
\* never with a service error; the error sink once if the last POST ended in
\* a transport or a service error, and not at all if it succeeded.
C3_ErrorRouting ==
    \A f \in Flushes :
        /\ f.pc = "done" =>
             LET last == f.replies[Len(f.replies)]
             IN  /\ Len(f.replies) = f.posts /\ f.posts >= 1
                 /\ Len(f.cbs) = 1
                 /\ f.cbs[1] # NoError <=> last = "transport"
                 /\ last = "transport" => f.cbs[1] = TransportError(f.posts)
                 /\ f.cbs[1].kind # "service"
                 /\ last = "transport" => f.sink = <<TransportError(f.posts)>>
                 /\ last = "service" => f.sink = <<ServiceError(f.posts)>>
                 /\ last \in {"ok", "empty"} => f.sink = <<>>
        /\ f.pc \in {"post", "backoff"} => f.cbs = <<>> /\ f.sink = <<>>

\* A flush that failed in transport, was retried and then got a service error.
C3_Witness ==
    \E f \in Flushes :
        f.pc = "done" /\ f.replies = <<"transport", "service">>

\* ------------------------------------------------ the middleware chain: C9, C10

\* The middleware steps of a flush: starts and continuations, in order.
ChainTrace(f) ==
    SelectSeq(f.trace, LAMBDA e : e[1] \in {"start", "next", "fail"})

HasEntry(f, kind) == \E k \in 1..Len(f.trace) : f.trace[k][1] = kind

\* start m[1], next m[1], start m[2], next m[2], ...
RECURSIVE OneByOne(_)
OneByOne(m) ==
    IF m = <<>> THEN <<>>
    ELSE <<<<"start", m[1]>>, <<"next", m[1]>>>> \o OneByOne(Tail(m))

\* C9: once a middleware of a flush has called next with an error, no other
\* step of that flush runs, it makes no POST, the error sink has been invoked
\* once, with that error, and the flush's callback is not invoked at all.
C9_MiddlewareAbort ==
    \A f \in Flushes :
        HasEntry(f, "fail") =>
            /\ f.pc = "aborted"
            /\ f.trace[Len(f.trace)][1] = "fail"
            /\ ChainTrace(f) =
                 SubSeq(OneByOne(f.mws), 1, 2 * f.step - 1)
                     \o <<<<"fail", f.mws[f.step]>>>>
            /\ f.posts = 0 /\ ~HasEntry(f, "post")
            /\ f.body.type = "none"
            /\ f.sink = <<MiddlewareError(f.step)>>
            /\ f.cbs = <<>>

\* A flush with two middlewares whose first one failed.
C9_Witness ==
    \E f \in Flushes :
        Len(f.mws) = 2 /\ HasEntry(f, "fail") /\ f.step = 1 /\ f.batched

\* C10: the steps of a flush are the middlewares in the order they were
\* registered, each started only after the one before has called next
\* without error, at most one started and not yet continued, and the first
\* POST comes after the last step's continuation.
C10_ChainSequential ==
    \A f \in Flushes :
        LET n == Len(f.mws)
            ct == ChainTrace(f)
            all == OneByOne(f.mws)
        IN  /\ f.mws = SubSeq(registered, 1, n)
            /\ \/ ct = SubSeq(all, 1, Len(ct))
               \/ /\ ct[Len(ct)][1] = "fail"
                  /\ SubSeq(ct, 1, Len(ct) - 1) = SubSeq(all, 1, Len(ct) - 1)
                  /\ Len(ct) % 2 = 0
            /\ f.pc = "mw" <=> (Len(ct) % 2 = 1)
            /\ f.pc = "mw" => ct[Len(ct)] = <<"start", f.mws[f.step]>>
            /\ f.posts > 0 =>
                 /\ SubSeq(f.trace, 1, 2 * n) = all
                 /\ Len(f.trace) > 2 * n
                 /\ f.trace[2 * n + 1] = <<"post", 1>>

\* A flush that ran two different middlewares, the second registered first in
\* number, and then posted.
C10_Witness ==
    \E f \in Flushes :
        f.mws = <<2, 1>> /\ f.posts = 1 /\ f.pc = "done"

\* ------------------------------------------------------ the timer: C11 - C14

\* C11: in every state the intervals set and not cleared are at most one,
\* and that one is the interval _timerID refers to.
C11_OneLiveTimer ==
    /\ Cardinality(timers) <= 1
    /\ timers = IF timerID = Null THEN {} ELSE {timerID}

\* A timer replaced by one of another interval (the constructor's is 5).
C11_Witness ==
    /\ timerID # Null
    /\ timerDuration = 7
    /\ timers = {timerID}

\* The settings objects _initializeConfig can be called with in this state:
\* a call's own, the instance's, and the snapshots that queued contexts and
\* flushes carry into their next validation.
SettingsArguments ==
    {cc.c : cc \in {x \in CallConfigs : x.present}}
    \cup {config}
    \cup {contextQueue[k].config : k \in 1..Len(contextQueue)}
    \cup {flushes[i].cfg : i \in 1..Len(flushes)}

\* Resolving any settings whose effective autoFlush is false, while a timer
\* runs, leaves no timer.
StoppedByAutoFlushOff ==
    \A c \in SettingsArguments :
        LET r == InitializeConfig(Logger, c)
        IN  timerID # Null /\ ~r.ret.autoFlush =>
                r.S.timerID = Null /\ r.S.timers = {}

\* A send that queues a context whose settings have autoFlush false leaves
\* no timer, and a tick happens only while a timer is set.
NoTickWhenStopped ==
    /\ /\ nextId' = nextId + 1
       /\ Len(contextQueue') = Len(contextQueue) + 1
       /\ ~contextQueue'[Len(contextQueue')].config.autoFlush
       => timerID' = Null /\ timers' = {}
    /\ ticked' => timerID # Null
    /\ timerID = Null /\ timerID' # Null =>
         \E c \in SettingsArguments \cup
                  {contextQueue'[k].config : k \in 1..Len(contextQueue')} :
            c.autoFlush /\ c.batchInterval > 0

\* C12: settings resolved while a timer runs, with an effective autoFlush of
\* false, stop the timer: no timer is live afterwards, and no tick happens
\* until a resolution with autoFlush true and a positive interval starts one.
C12_AutoFlushOffStopsTimer ==
    []StoppedByAutoFlushOff /\ [][NoTickWhenStopped]_vars

\* The constructor's timer (interval 5) stopped by a send whose own settings
\* turn autoFlush off.
C12_Witness ==
    /\ config.autoFlush /\ config.batchInterval = 5
    /\ timerID = Null /\ timers = {}
    /\ contextQueue # <<>>
    /\ ~contextQueue[Len(contextQueue)].config.autoFlush

\* Settings objects that supply batchInterval: 0, alone ({batchInterval: 0})
\* or with autoFlush: true.  Line 280 reads the field through ||, so a 0
\* supplied and a field left out resolve alike and are the same Settings.
ZeroIntervalSettings == {Settings("none", 0, 0, 0), Settings("true", 0, 0, 0)}

\* C13: settings resolved while a timer runs, with a supplied batchInterval
\* of 0 and an effective autoFlush of true, stop the timer.
C13_ZeroIntervalStopsTimer ==
    \A c \in ZeroIntervalSettings :
        LET r == InitializeConfig(Logger, c)
        IN  timerID # Null /\ r.ret.autoFlush =>
                r.S.timerID = Null /\ r.S.timers = {}

\* A timer still running, with autoFlush on, after a send.
C13_Witness ==
    /\ timerID # Null /\ timers # {}
    /\ config.autoFlush
    /\ nextId > 1

\* The logger's fields are those of S.
FieldsAre(S) ==
    /\ config' = S.config
    /\ timerID' = S.timerID
    /\ timerDuration' = S.timerDuration
    /\ timers' = S.timers
    /\ contextQueue' = S.contextQueue
    /\ eventSizes' = S.eventSizes
    /\ flushes' = S.flushes

\* C14: a tick that finds the queue empty begins no flush, issues no POST and
\* leaves queue, size tally, timer and settings as they were; a tick that
\* finds the queue non-empty has the effect of one call of flush, which takes
\* the whole queue and begins at most one flush.
C14_TickOnEmptyQueue ==
    [][ticked' =>
         IF contextQueue = <<>>
         THEN UNCHANGED <<flushes, contextQueue, eventSizes, timerID,
                          timerDuration, timers, config>>
         ELSE /\ FieldsAre(Flush(Logger, middlewares, "timer",
                                 Callback(FALSE, 0)))
              /\ contextQueue' = <<>> /\ eventSizes' = <<>>
              /\ Len(flushes') <= Len(flushes) + 1]_vars

\* A tick has flushed the queue, the flush has ended, and a later tick has
\* found the queue empty.
C14_Witness ==
    /\ ticked
    /\ contextQueue = <<>>
    /\ Len(flushes) = 1
    /\ flushes[1].src = "timer" /\ flushes[1].pc = "done"

\* ------------------------------------------ settings and events: C15 - C17

NumericFields == {"maxRetries", "maxBatchSize", "batchInterval"}

\* The sets of numeric fields a call may have supplied when its settings
\* object reads as c: every field that is not 0, and any of those that are 0
\* (supplied as 0) or none of them (left out).
Supplied(c) ==
    {sup \in SUBSET NumericFields :
        \A f \in NumericFields : c[f] # 0 => f \in sup}

\* C15: the resolved settings have, for each field on its own, the value the
\* call supplies, 0 and false included, and the instance's value (the
\* default, where the constructor was given none) for a field the call
\* leaves out.
C15_ResolutionOrder ==
    \A cc \in {x \in ConfigCallConfigs : x.present} :
        \A sup \in Supplied(cc.c) :
            LET ret == InitializeConfig(Logger, cc.c).ret
            IN  /\ \A f \in NumericFields :
                     ret[f] = IF f \in sup THEN cc.c[f] ELSE config[f]
                /\ ret.autoFlush = IF cc.c.hasAutoFlush THEN cc.c.autoFlush
                                   ELSE config.autoFlush

\* A context queued with the call's maxRetries (1), not the instance's (2).
C15_Witness ==
    /\ config.maxRetries = 2
    /\ \E k \in 1..Len(contextQueue) : contextQueue[k].config.maxRetries = 1

\* The settings objects of ConfigCallConfigs with no token or with one that
\* is not a string.
BadTokenCalls ==
    {x \in ConfigCallConfigs : x.present /\ x.c.token # "str"}

\* C16: resolution of a settings object with no token, or with a token that
\* is not a string, throws: the constructor throws, and a send with such
\* settings throws with queue, size tally and flushes (so POSTs and error
\* sink) as they were.
C16_TokenRequired ==
    /\ \A c \in ConfigCtorConfigs, t \in Tokens \ {"str"} :
         Construct(WithToken(c, t)).threw
    /\ \A cc \in BadTokenCalls :
         LET S == Send([Logger EXCEPT !.sends = nextId], middlewares, nextId,
                       "a", cc, Callback(TRUE, nextId))
         IN  /\ S.threw
             /\ S.contextQueue = contextQueue
             /\ S.eventSizes = eventSizes
             /\ S.flushes = flushes

\* An event queued under settings whose token is not a string.
C16_Witness ==
    \E k \in 1..Len(contextQueue) : contextQueue[k].config.token = "num"

\* C17: every queued event, sent without a severity, has the instance's
\* configured level as its severity, and so has every event in the request
\* body of a flush.
C17_DefaultSeverity ==
    /\ \A k \in 1..Len(contextQueue) : contextQueue[k].severity = config.level
    /\ \A f \in Flushes :
         \A k \in 1..Len(f.body.data) :
            f.body.data[k].json.event.severity = config.level

\* A logger of level "error" has posted one event.
C17_Witness ==
    /\ config.level = "error"
    /\ \E f \in Flushes :
         f.posts = 1 /\ Len(f.body.data) = 1 /\ f.src = "send"

\* ------------------------------------------- flushing by hand and by size

\* flush's test finds no batching condition in the current state.
NoBatchCondition ==
    /\ config.autoFlush
    /\ timerID = Null
    /\ ~(config.maxBatchSize > 0
         /\ CalculateBatchSize(Logger) > config.maxBatchSize)

\* The size tally after the step has one entry for each context queued after
\* the step, the size of that context.
SizesOfRemaining ==
    /\ Len(eventSizes') = Len(contextQueue')
    /\ \A k \in 1..Len(contextQueue') :
         k <= Len(eventSizes')
         /\ eventSizes'[k] = ByteLength(contextQueue'[k].message)

\* C18: a flush() that runs with no batching condition on a queue of n >= 1
\* contexts begins a flush of the newest context alone (posted at once when
\* there is no middleware) and leaves the n-1 older contexts queued in their
\* order, each with its size; so does the flush a send triggers with no
\* batching condition, whose newest context is the one just sent.
C18_TakeNewest ==
    [][Len(flushes') = Len(flushes) + 1 /\ ~flushes'[Len(flushes')].batched =>
         LET f == flushes'[Len(flushes')]
             n == Len(contextQueue)
         IN  /\ f.src = "flush" =>
                  /\ NoBatchCondition /\ n >= 1
                  /\ f.events = <<contextQueue[n]>>
                  /\ contextQueue' = SubSeq(contextQueue, 1, n - 1)
             /\ f.src = "send" =>
                  /\ IdsOf(f.events) = <<nextId>>
                  /\ contextQueue' = contextQueue
             /\ f.src \in {"flush", "send"}
             /\ SizesOfRemaining
             /\ f.mws = <<>> =>
                  f.posts = 1 /\ BodyIds(f) = IdsOf(f.events)]_vars

\* flush() has taken the newer of two queued events and left the older.
C18_Witness ==
    /\ Len(contextQueue) = 1 /\ contextQueue[1].id = 1
    /\ \E f \in Flushes :
         f.src = "flush" /\ ~f.batched /\ IdsOf(f.events) = <<2>>

\* ------------------------------------------------- the timer's interval

\* A running timer's duration is positive and the instance's batchInterval;
\* with no timer the duration is 0.
DurationRecorded ==
    IF timerID # Null
    THEN timerDuration > 0 /\ timerDuration = config.batchInterval
    ELSE timerDuration = 0

\* Resolving settings with autoFlush true and a positive batchInterval other
\* than the running timer's leaves one live interval, of the new duration.
RestartedOnChange ==
    \A c \in SettingsArguments :
        LET r == InitializeConfig(Logger, c)
        IN  /\ timerID # Null
            /\ r.ret.autoFlush
            /\ r.ret.batchInterval > 0
            /\ r.ret.batchInterval # timerDuration
            => /\ r.S.timerID # Null
               /\ r.S.timers = {r.S.timerID}
               /\ r.S.timerDuration = r.ret.batchInterval
               /\ r.S.config.batchInterval = r.ret.batchInterval

\* C19: settings resolved with autoFlush true and a positive batchInterval
\* that differs from the running timer's clear the old timer and start one
\* with the new interval; in every state a running timer's _timerDuration is
\* positive and equal to config.batchInterval, and without a timer it is 0.
C19_TimerInterval == DurationRecorded /\ RestartedOnChange

\* The constructor's timer (interval 5) replaced by one of interval 7, from
\* the settings of a send.
C19_Witness ==
    /\ timerID # Null /\ timerDuration = 7 /\ config.batchInterval = 7
    /\ \E k \in 1..Len(contextQueue) : contextQueue[k].config.batchInterval = 7

\* --------------------------------------------------------- the threshold

SizeSettings ==
    /\ config.autoFlush
    /\ timerID = Null
    /\ config.maxBatchSize > 0

\* C20: with autoFlush, no timer and a threshold M > 0, a send of a valid
\* event begins a flush exactly when the size tally with the new event is
\* greater than M; that flush is batched and takes the whole queue, the new
\* event included, in one request (posted at once when there is no
\* middleware); and the size tally is at most M after the send.
C20_SizeThreshold ==
    [][SizeSettings /\ nextId' = nextId + 1 /\ Valid(sent'[nextId]) =>
         LET total == CalculateBatchSize(Logger) + ByteLength(sent'[nextId])
             over == total > config.maxBatchSize
         IN  /\ over <=> Len(flushes') = Len(flushes) + 1
             /\ ~over => flushes' = flushes
             /\ over =>
                  LET f == flushes'[Len(flushes')]
                  IN  /\ f.src = "send" /\ f.batched
                      /\ IdsOf(f.events) = IdsOf(contextQueue) \o <<nextId>>
                      /\ f.message = BatchData(f.events)
                      /\ contextQueue' = <<>> /\ eventSizes' = <<>>
                      /\ f.mws = <<>> =>
                           /\ f.posts = 1
                           /\ f.body = [type |-> "form", data |-> f.message]
             /\ SumSeq(eventSizes') <= config.maxBatchSize]_vars

\* A send has pushed the tally over the threshold of 2 and flushed two
\* events in one request.
C20_Witness ==
    /\ SizeSettings /\ config.maxBatchSize = 2
    /\ \E f \in Flushes :
         f.src = "send" /\ f.batched /\ IdsOf(f.events) = <<1, 2>>
         /\ f.posts = 1

\* ------------------------------------------------------ a flush completes

\* The flush has ended: its chain was aborted or its delivery is over.
Completed(f) == f.pc \in {"done", "aborted"}

\* How a flush may stand: aborted by a middleware error that went to the
\* error sink, with no POST and no callback; or delivered, with its callback
\* invoked once after at most maxRetries + 1 POSTs; and at any time at most
\* one POST without its reply, none once the flush has ended.
FlushStanding(f) ==
    /\ f.pc = "aborted" =>
         /\ f.posts = 0 /\ f.cbs = <<>>
         /\ Len(f.sink) = 1 /\ f.sink[1].kind = "middleware"
    /\ f.pc = "done" =>
         /\ Len(f.cbs) = 1
         /\ f.posts >= 1 /\ f.posts <= f.cfg.maxRetries + 1
         /\ \A k \in 1..Len(f.sink) : f.sink[k].kind # "middleware"
    /\ ~Completed(f) => f.cbs = <<>>
    /\ f.posts - Len(f.replies) = IF f.pc = "post" THEN 1 ELSE 0

\* C21: when every POST is answered, every backoff elapses and every
\* middleware calls next, every flush that starts ends, aborted by a
\* middleware error (error sink, no POST) or with its callback invoked
\* exactly once after at most maxRetries + 1 POSTs, never with two POSTs
\* outstanding.
C21_FlushCompletes ==
    /\ [](\A f \in Flushes : FlushStanding(f))
    /\ \A i \in 1..MaxFlushes :
         (Len(flushes) >= i) ~> (Len(flushes) >= i /\ Completed(flushes[i]))

\* A flush that went through two middlewares, a failed POST, a backoff and a
\* second POST has ended.
C21_Witness ==
    \E f \in Flushes :
        /\ f.pc = "done"
        /\ Len(f.mws) = 2
        /\ f.posts = 2 /\ Len(f.backoffs) = 1

\* ------------------------------------------------------ autoFlush = false

\* C22: in a logger constructed with autoFlush = false and used without
\* per-call settings, no timer is ever started, no send begins a flush, and a
\* call of flush that finds the queue non-empty begins exactly one flush,
\* batched, whose data is the JSON texts of all queued events in queue order
\* (the request body, posted at once when there is no middleware), and
\* empties the queue.
C22_ManualFlush ==
    /\ [](~config.autoFlush => timerID = Null /\ timers = {})
    /\ [][~config.autoFlush =>
            /\ nextId' = nextId + 1 => flushes' = flushes
            /\ FlushCall /\ contextQueue # <<>> =>
                 /\ Len(flushes') = Len(flushes) + 1
                 /\ LET f == flushes'[Len(flushes')]
                    IN  /\ f.src = "flush"
                        /\ f.batched
                        /\ IdsOf(f.events) = IdsOf(contextQueue)
                        /\ f.message = BatchData(contextQueue)
                        /\ f.mws = <<>> =>
                             /\ f.posts = 1
                             /\ f.body = [type |-> "form", data |-> f.message]
                 /\ contextQueue' = <<>>
                 /\ eventSizes' = <<>>]_vars

\* A call of flush has sent two queued events, whose sizes exceed the size
\* threshold, in one request, with a batch interval set and no timer.
C22_Witness ==
    /\ ~config.autoFlush
    /\ config.batchInterval > 0 /\ config.maxBatchSize = 1
    /\ timers = {}
    /\ \E f \in Flushes :
         f.src = "flush" /\ Len(f.events) = 2 /\ f.posts = 1

\* ------------------------------------------------ a resolution that throws

\* C23: when settings resolution throws, the timer is as it was before the
\* call: a constructor that throws leaves no interval behind, and a send
\* that throws (here only the resolution of its settings can throw) leaves
\* the handle, the duration, the live intervals and the instance's
\* batchInterval unchanged.
C23_ThrowKeepsTimer ==
    /\ [](~Constructed => timerID = Null /\ timers = {} /\ timerDuration = 0)
    /\ [][nextId' = nextId + 1 /\ nextId \notin accepted' =>
            /\ UNCHANGED <<timerID, timerDuration, timers>>
            /\ config'.batchInterval = config.batchInterval]_vars

\* Two sends were rejected by settings resolution and a timer of the
\* constructor's interval is running.
C23_Witness ==
    /\ nextId = 3 /\ accepted = {}
    /\ timerID # Null /\ timerDuration = 5

\* --------------------------------------------------- flush, nothing queued

\* C24: a call of flush that finds the queue empty does not throw, and the
\* flush it begins, if any, never issues a POST.
C24_EmptyFlush ==
    /\ contextQueue = <<>> =>
         ~Flush(Logger, middlewares, "flush", Callback(TRUE, 0)).threw
    /\ \A f \in Flushes :
         f.src = "flush" /\ f.events = <<>> => f.posts = 0

\* A call of flush on an empty queue has begun a flush, which has gone
\* through a middleware.
C24_Witness ==
    \E f \in Flushes :
        /\ f.src = "flush" /\ f.events = <<>>
        /\ Len(f.mws) = 1 /\ f.pc # "mw"

\* ------------------------------------------------------ send's callback

\* How many times the callback given to send call n has been invoked.
RECURSIVE CallsIn(_, _)
CallsIn(fs, n) ==
    IF fs = <<>> THEN 0
    ELSE (IF Head(fs).cb.owner = n THEN Len(Head(fs).cbs) ELSE 0)
         + CallsIn(Tail(fs), n)

\* C25: the callback given to a send is invoked at most once, and only by
\* the flush which that send call began: a flush begun by a later send, by
\* the timer or by a call of flush never holds it, whichever events it
\* delivers.
C25_SendCallback ==
    \A n \in 1..MaxSends :
        /\ CallsIn(flushes, n) <= 1
        /\ \A f \in Flushes :
             f.cb.owner = n => f.src = "send" /\ f.born = n

\* The first send's event was queued and the second send began the flush
\* that delivered both: the second send's callback was invoked once, the
\* first send's never.
C25_Witness ==
    /\ \E f \in Flushes :
         /\ f.src = "send" /\ f.born = 2
         /\ IdsOf(f.events) = <<1, 2>>
         /\ f.pc = "done"
    /\ CallsIn(flushes, 2) = 1
    /\ CallsIn(flushes, 1) = 0

====
